---- MODULE Spec2Model ----
(***************************************************************************)
(* Model of script_python/sites_association.py: the loop that associates   *)
(* every vehicle of a SUMO simulation with a cell site and appends the     *)
(* association to a csv file every args.step steps.                        *)
(*                                                                         *)
(* libsumo is outside the repository.  Its calls are inputs of the         *)
(* actions: the lists of arrived and teleported vehicles, the departed     *)
(* vehicles and the subscription results of one simulationStep() are       *)
(* drawn from bounded sets.  Distances are compared through their squares  *)
(* (getDistance2D returns the square root, which is monotone).             *)
(*                                                                         *)
(* number_users and num_changes of script_python/sites_analysis.py read    *)
(* the association file; they are applied to the files the loop can write. *)
(***************************************************************************)
EXTENDS Integers, Sequences, FiniteSets, TLC

\* ------------------------------------------------------------------ bounds
\* Largest value of args.time: the loop runs the steps 0..args.time.
MaxTime == 2
\* Planar coordinates of vehicles and sites are drawn from 0..MaxCoord.
MaxCoord == 1
\* Most vehicle ids one simulationStep() reports as arrived or teleported.
MaxRemovals == 1
\* Largest value of args.step when the loop is run on its own.
MaxInterval == 3
\* Most snapshots of an association file handed to sites_analysis.py.
MaxSnapshots == 2
\* Most sites of a registry handed to new_cell_site on its own, and largest
\* value of args.cell_sites when the sites are generated on their own.
MaxSites == 2
\* The bounds of the net boundary are -MaxHalf/2 .. MaxHalf/2, in halves.
MaxHalf == 3

\* The vehicle ids, in the order libsumo lists them.
VehicleOrder == << "a", "b" >>
Vehicles == { VehicleOrder[i] : i \in 1 .. Len(VehicleOrder) }
Coords == 0 .. MaxCoord
Positions == Coords \X Coords

\* Python's None (a record's site when no site is near enough).
None == "None"

\* ------------------------------------------------------------ command line
\* An option of the command line: << >> when absent, <<v>> when given.
Absent == << >>
Given(v) == << v >>

\* Python's truth value of args.cell_sites: None and 0 are false.
Truthy(opt) == IF opt = Absent THEN FALSE ELSE opt[1] # 0

\* Site files (args.input) after pandas.read_csv and net.convertLonLat2XY:
\* one entry per row, str(row[1]) and the projected planar position.
FileEmpty == << >>
FileFar == << [id |-> "7", pos |-> <<0, 0>>], [id |-> "8", pos |-> <<1, 1>>] >>
FileNear == << [id |-> "7", pos |-> <<0, 0>>], [id |-> "8", pos |-> <<1, 0>>] >>

\* args of main(): input is a site file, sumo_net tells whether --sumo_net
\* was given, cell_sites is the number of sites to generate, time the
\* duration, step the check interval, distance the maximum distance,
\* sumo_cfg the simulation to run: the ids of the vehicles of its routes.
Configs ==
    { [input |-> Given(FileNear), sumo_net |-> TRUE, cell_sites |-> Absent,
       time |-> MaxTime, step |-> 1, distance |-> 1,
       sumo_cfg |-> Vehicles],
      [input |-> Given(FileFar), sumo_net |-> TRUE, cell_sites |-> Absent,
       time |-> MaxTime, step |-> 2, distance |-> 1,
       sumo_cfg |-> Vehicles],
      [input |-> Given(FileEmpty), sumo_net |-> TRUE, cell_sites |-> Absent,
       time |-> MaxTime, step |-> 1, distance |-> 1,
       sumo_cfg |-> Vehicles],
      [input |-> Absent, sumo_net |-> FALSE, cell_sites |-> Given(1),
       time |-> MaxTime, step |-> 2, distance |-> 1,
       sumo_cfg |-> Vehicles],
      [input |-> Given(FileFar), sumo_net |-> FALSE, cell_sites |-> Absent,
       time |-> MaxTime, step |-> 1, distance |-> 1,
       sumo_cfg |-> Vehicles],
      [input |-> Absent, sumo_net |-> TRUE, cell_sites |-> Absent,
       time |-> MaxTime, step |-> 1, distance |-> 1,
       sumo_cfg |-> Vehicles],
      [input |-> Absent, sumo_net |-> TRUE, cell_sites |-> Given(0),
       time |-> MaxTime, step |-> 1, distance |-> 1,
       sumo_cfg |-> Vehicles],
      [input |-> Given(FileFar), sumo_net |-> TRUE, cell_sites |-> Absent,
       time |-> MaxTime, step |-> 0, distance |-> 1,
       sumo_cfg |-> Vehicles],
      [input |-> Given(FileNear), sumo_net |-> TRUE, cell_sites |-> Absent,
       time |-> MaxTime - 1, step |-> -2, distance |-> 1,
       sumo_cfg |-> Vehicles],
      [input |-> Given(FileNear), sumo_net |-> TRUE, cell_sites |-> Given(1),
       time |-> 0, step |-> 3, distance |-> 1,
       sumo_cfg |-> Vehicles] }

VARIABLES
    pc,            \* position in main(): "start", "loop", "done", or the
                   \* exception that ended it
    args,          \* the parsed command line
    poi_pos,       \* site registry, in iteration order: <<[id, pos], ...>>
    vehicles,      \* dict vehicle id -> site, in insertion order: <<[id, site], ...>>
    step,          \* number of the next iteration of the loop
    check,         \* the local 'check' of the last iteration
    out,           \* lines of the file args.output
    sites_csv,     \* lines of the file output_sites_pos.csv
    live,          \* libsumo: vehicles in the simulation
    subscribed,    \* libsumo: vehicles subscribed to VAR_POSITION
    arrived,       \* getArrivedIDList() of the last iteration
    teleport,      \* getEndingTeleportIDList() of the last iteration
    results,       \* getAllSubscriptionResults() of the last iteration
    printed,       \* messages printed by the last iteration
    before,        \* history: 'vehicles' when the last iteration began
    after_removal, \* history: 'vehicles' after the two removal loops of the
                   \* last iteration
    first_removed, \* history: per vehicle id, the first step at which its
                   \* record was deleted (Never if none)
    gone_since,    \* history: per vehicle id, the step at which its record was
                   \* deleted if it has reported no position since (else Never)
    boundary,      \* libsumo: getNetBoundary(), <<x_y_min, x_y_max>>, each
                   \* coordinate a number of halves (3 stands for 1.5)
    analysis,      \* sites_analysis.py: the lines of its output file
    events         \* history: the calls of simulationStep() and of
                   \* write_positions() so far, each with its step number

vars == << pc, args, poi_pos, vehicles, step, check, out, sites_csv, live,
           subscribed, arrived, teleport, results, printed, before,
           after_removal, first_removed, gone_since, boundary, analysis, events >>

\* No step, in first_removed and gone_since.
Never == 0 - 1

\* A net boundary with whole bounds: the positions of the model.
WholeBoundary == << << 0, 0 >>, << 2 * MaxCoord, 2 * MaxCoord >> >>

\* ---------------------------------------------------------------- distance
\* Square of libsumo.simulation.getDistance2D(p, q).
Dist2(p, q) == (p[1] - q[1]) * (p[1] - q[1]) + (p[2] - q[2]) * (p[2] - q[2])

\* float('inf'), as a squared distance no site has.
Inf == -1

\* A bug of line 38: 'dist <= new_site[1]', so the last of several nearest
\* sites wins.
DistLessOrEqual(d1, d2) == d1 # Inf /\ (d2 = Inf \/ d1 <= d2)

\* d1 < d2 on distances given by their squares.
DistLess(d1, d2) == d1 # Inf /\ (d2 = Inf \/ d1 < d2)

\* d <= m for a distance given by its square and a number m.
DistWithin(d, m) == d # Inf /\ m >= 0 /\ d <= m * m

\* One iteration of the for loop of new_cell_site: the pair (id, dist) after
\* looking at the sites i..Len(reg).
RECURSIVE ScanSites(_, _, _, _)
ScanSites(reg, veh_coord, i, new_site) ==
    IF i > Len(reg) THEN new_site
    ELSE LET dist == Dist2(reg[i].pos, veh_coord)
         IN  IF DistLess(dist, new_site.dist)
             THEN ScanSites(reg, veh_coord, i + 1, [id |-> reg[i].id, dist |-> dist])
             ELSE ScanSites(reg, veh_coord, i + 1, new_site)

\* A bug of line 41: the nearest site is returned whatever its distance.
new_cell_site_unbounded(reg, veh_coord, max_dist) ==
    ScanSites(reg, veh_coord, 1, [id |-> None, dist |-> Inf]).id

\* A variant of line 41 that returns the special id '0' of sites_analysis.py
\* in place of None when no site is near enough.
new_cell_site_special_id(reg, veh_coord, max_dist) ==
    LET new_site == ScanSites(reg, veh_coord, 1, [id |-> None, dist |-> Inf])
    IN  IF DistWithin(new_site.dist, max_dist) THEN new_site.id ELSE "0"

new_cell_site(reg, veh_coord, max_dist) ==
    LET new_site == ScanSites(reg, veh_coord, 1, [id |-> None, dist |-> Inf])
    IN  IF DistWithin(new_site.dist, max_dist) THEN new_site.id ELSE None

\* A bug of line 63: '>=', so a vehicle at exactly the maximum distance
\* counts as disconnected.
check_connection_ge(poi_coord, veh_coord, dist) ==
    dist < 0 \/ Dist2(poi_coord, veh_coord) >= dist * dist

check_connection(poi_coord, veh_coord, dist) ==
    ~ DistWithin(Dist2(poi_coord, veh_coord), dist)

\* ------------------------------------------------------------- dictionaries
Keys(d) == { d[i].id : i \in 1 .. Len(d) }

HasKey(d, k) == k \in Keys(d)

\* d[k] for a key of d.
Lookup(d, k) == d[CHOOSE i \in 1 .. Len(d) : d[i].id = k]

\* vehicles.get(key, None)
DictGet(d, k) == IF HasKey(d, k) THEN Lookup(d, k).site ELSE None

\* poi_pos[poi_id]
SitePos(reg, poi_id) == Lookup(reg, poi_id).pos

\* d[k] = s: an existing key keeps its place, a new key goes last.
DictSet(d, k, s) ==
    IF HasKey(d, k)
    THEN [i \in 1 .. Len(d) |-> IF d[i].id = k THEN [id |-> k, site |-> s] ELSE d[i]]
    ELSE Append(d, [id |-> k, site |-> s])

\* ------------------------------------------------------------------- files
\* str(n) for the small numbers the model writes.
Digits == << "0", "1", "2", "3", "4", "5", "6", "7", "8", "9" >>
Str(n) == IF n < 0 THEN "-" \o Digits[(0 - n) + 1] ELSE Digits[n + 1]

\* int(s) for a string written by Str.
ParseInt(s) == (CHOOSE i \in 1 .. Len(Digits) : Digits[i] = s) - 1

\* A field of a csv line: pandas writes None as the empty field.
CsvField(v) == IF v = None THEN "" ELSE v

\* The line df.to_csv writes for the empty frame with the three columns.
Header == << "step", "vehicle_id", "site_id" >>

\* The header line of output_sites_pos.csv.
SitesHeader == << "site_id", "x", "y" >>

\* A file left by an earlier run.
StaleFile == << Header, << "0", "z", "7" >> >>

\* A bug of line 130: mode='a', so the header follows what the file held.
write_header_append(file) == file \o << Header >>

\* Lines 129-130: the empty frame written with mode='w' replaces whatever
\* the file held by the header line.
write_header(file) == << Header >>

\* A bug of line 81: mode='w', so each snapshot replaces the file.
write_positions_overwrite(vehs, stp, file) ==
    [i \in 1 .. Len(vehs) |-> << Str(stp), vehs[i].id, CsvField(vehs[i].site) >>]

\* The lines of file_path after write_positions: one line per entry of the
\* dict, appended (mode='a', header=False).
write_positions(vehs, stp, file) ==
    file \o [i \in 1 .. Len(vehs) |->
               << Str(stp), vehs[i].id, CsvField(vehs[i].site) >>]

\* ------------------------------------------------------------- one iteration
\* Python's truth value of a site id: None and the empty string are false.
Falsy(poi_id) == poi_id = None \/ poi_id = ""

\* A bug of line 196: 'check and (not poi_id or ...)', so nothing is
\* resolved outside the check steps.
NeedsSiteOnlyOnCheck(vehs, key, coord, chk, reg, max_dist) ==
    LET poi_id == DictGet(vehs, key)
    IN  chk /\ (IF Falsy(poi_id) THEN TRUE
                ELSE check_connection(SitePos(reg, poi_id), coord, max_dist))

\* A reading of line 196 that leaves a record without a site alone: a site
\* is looked for only for a vehicle without a record, or on a check step for
\* a record whose site is too far.
NeedsSiteUnlessNone(vehs, key, coord, chk, reg, max_dist) ==
    LET poi_id == DictGet(vehs, key)
    IN  IF ~ HasKey(vehs, key) THEN TRUE
        ELSE IF Falsy(poi_id) THEN FALSE
        ELSE chk /\ check_connection(SitePos(reg, poi_id), coord, max_dist)

\* The condition of line 196 for the vehicle 'key' at 'coord'.
NeedsSite(vehs, key, coord, chk, reg, max_dist) ==
    LET poi_id == DictGet(vehs, key)
    IN  IF Falsy(poi_id) THEN TRUE
        ELSE chk /\ check_connection(SitePos(reg, poi_id), coord, max_dist)

\* The loop of lines 188-198 over the subscription results i..Len(res).
RECURSIVE Associate(_, _, _, _, _, _)
Associate(vehs, res, i, chk, reg, max_dist) ==
    IF i > Len(res) THEN vehs
    ELSE LET key == res[i].id
             coord == res[i].pos
         IN  IF NeedsSite(vehs, key, coord, chk, reg, max_dist)
             THEN Associate(DictSet(vehs, key, new_cell_site(reg, coord, max_dist)),
                            res, i + 1, chk, reg, max_dist)
             ELSE Associate(vehs, res, i + 1, chk, reg, max_dist)

\* del vehicles[veh_id] raises KeyError when the key is missing.
DelRaises(vehs, veh_id) == ~ HasKey(vehs, veh_id)

\* A bug of lines 172 and 180: 'except ValueError:', which lets the KeyError
\* of a missing key through.
ExceptCatchesValueError(exception) == exception = "ValueError"

\* The bare 'except:' of lines 172 and 180 catches every exception.
ExceptCatches(exception) == TRUE

\* A bug of lines 171 and 179: the record of a reported id is not deleted.
RemoveNone(vehs, ids) == vehs

\* The dict after a removal loop (lines 169-173, 177-181): every reported id
\* that has a record loses it, the other entries keep their order.
RemoveAll(vehs, ids) == SelectSeq(vehs, LAMBDA e : e.id \notin ids)

\* The messages a removal loop prints: one per id whose del raised.
RemovalMessages(vehs, ids, msg) ==
    [i \in 1 .. Cardinality({ v \in ids : DelRaises(vehs, v) }) |-> msg]

\* Whether a removal loop ends main() with an exception.
RemovalAborts(vehs, ids) ==
    \E v \in ids : DelRaises(vehs, v) /\ ~ ExceptCatches("KeyError")

\* Python's a % b for b # 0: the result has the sign of b.
PyMod(a, b) == IF b > 0 THEN a % b ELSE 0 - ((0 - a) % (0 - b))

\* A check one step early: (step + 1) % args.step == 0.
IsCheckBeforeStep(stp, interval) == PyMod(stp + 1, interval) = 0

\* step % args.step == 0 (line 165), for args.step # 0.
IsCheck(stp, interval) == PyMod(stp, interval) = 0

\* The ids of VehicleOrder[i..] that are in ids, in that order.
RECURSIVE Ordered(_, _)
Ordered(ids, i) ==
    IF i > Len(VehicleOrder) THEN << >>
    ELSE IF VehicleOrder[i] \in ids
         THEN << VehicleOrder[i] >> \o Ordered(ids, i + 1)
         ELSE Ordered(ids, i + 1)

\* getAllSubscriptionResults(): one position per subscribed vehicle in the
\* simulation, listed by vehicle id.
SubscriptionResults(ids) ==
    { [i \in 1 .. Cardinality(ids) |->
         [id |-> Ordered(ids, 1)[i], pos |-> f[Ordered(ids, 1)[i]]]] :
        f \in [ids -> Positions] }

\* ------------------------------------------------------------------ actions
Init ==
    /\ pc = "start"
    /\ args \in Configs
    /\ poi_pos = << >>
    /\ vehicles = << >>
    /\ step = 0
    /\ check = FALSE
    /\ out \in { << >>, StaleFile }
    /\ sites_csv = << >>
    /\ live = {}
    /\ subscribed = {}
    /\ arrived = {}
    /\ teleport = {}
    /\ results = << >>
    /\ printed = << >>
    /\ before = << >>
    /\ after_removal = << >>
    /\ first_removed = [v \in Vehicles |-> Never]
    /\ gone_since = [v \in Vehicles |-> Never]
    /\ events = << >>
    /\ analysis = {}
    /\ boundary = WholeBoundary

\* int(x) for a number of halves h (x = h / 2): truncates toward zero.
IntTrunc(h) == IF h >= 0 THEN h \div 2 ELSE 0 - ((0 - h) \div 2)

\* The values of (random.randint(x_min, x_max), random.randint(y_min, y_max))
\* for the net boundary b (lines 144-146, 152-153).
RandintBox(b) ==
    (IntTrunc(b[1][1]) .. IntTrunc(b[2][1])) \X (IntTrunc(b[1][2]) .. IntTrunc(b[2][2]))

\* The registries of n sites placed in box (lines 151-157): ids
\* str(0)..str(n-1), in that order; none if n < 1 (range(n) is empty).
GeneratedSites(box, n) ==
    { [i \in 1 .. n |-> [id |-> Str(i - 1), pos |-> f[i]]] :
        f \in [1 .. n -> box] }

\* The registries of n sites at the positions of the model.
SyntheticSites(n) == GeneratedSites(Positions, n)

\* The lines of output_sites_pos.csv for the generated sites.
SitesLines(reg) ==
    << SitesHeader >> \o
    [i \in 1 .. Len(reg) |-> << reg[i].id, Str(reg[i].pos[1]), Str(reg[i].pos[2]) >>]

\* The chain with the branches taken in the other order: the count first.
SiteSourceCountFirst(a) ==
    IF Truthy(a.cell_sites) THEN "cell_sites"
    ELSE IF a.input # Absent THEN "input"
    ELSE "none"

\* The branch of 'if args.input: ... elif args.cell_sites: ... else: ...'
\* (lines 134, 143, 158) that main() takes.
SiteSource(a) ==
    IF a.input # Absent THEN "input"
    ELSE IF Truthy(a.cell_sites) THEN "cell_sites"
    ELSE "none"

\* Lines 123-162: the header of the output file, then the sites.
Setup ==
    /\ pc = "start"
    /\ out' = write_header(out)
    /\ \/ /\ SiteSource(args) = "input"
          /\ args.sumo_net = FALSE
          /\ pc' = "TypeError"
          /\ UNCHANGED << poi_pos, sites_csv >>
       \/ /\ SiteSource(args) = "input"
          /\ args.sumo_net = TRUE
          /\ poi_pos' = args.input[1]
          /\ pc' = "loop"
          /\ UNCHANGED sites_csv
       \/ /\ SiteSource(args) = "cell_sites"
          /\ \E reg \in GeneratedSites(RandintBox(boundary), args.cell_sites[1]) :
               /\ poi_pos' = reg
               /\ sites_csv' = SitesLines(reg)
          /\ pc' = "loop"
       \/ /\ SiteSource(args) = "none"
          /\ pc' = "TypeError"
          /\ UNCHANGED << poi_pos, sites_csv >>
    /\ UNCHANGED << args, vehicles, step, check, live, subscribed, arrived,
                    teleport, results, printed, before, after_removal,
                    first_removed, gone_since, boundary, analysis, events >>

\* Line 165 with args.step = 0: the modulo raises before simulationStep().
StepZeroInterval ==
    /\ pc = "loop"
    /\ step <= args.time
    /\ args.step = 0
    /\ pc' = "ZeroDivisionError"
    /\ UNCHANGED << args, poi_pos, vehicles, step, check, out, sites_csv, live,
                    subscribed, arrived, teleport, results, printed, before,
                    after_removal, first_removed, gone_since, boundary, analysis, events >>

\* Lines 164-201: one iteration of the loop.  simulationStep() reports the
\* ids arr and tel as gone and the ids dep as departed; a departed id is
\* subscribed (lines 184-185) and every subscribed vehicle in the simulation
\* reports its position.
Step ==
    /\ pc = "loop"
    /\ step <= args.time
    /\ args.step # 0
    /\ \E arr \in SUBSET args.sumo_cfg, tel \in SUBSET args.sumo_cfg :
         /\ Cardinality(arr \cup tel) <= MaxRemovals
         /\ \E dep \in SUBSET (args.sumo_cfg \ (live \ (arr \cup tel))) :
              LET stay == live \ (arr \cup tel)
                  sub == (subscribed \cap stay) \cup dep
              IN  \E res \in SubscriptionResults((stay \cup dep) \cap sub) :
                    LET chk == IsCheck(step, args.step)
                        v1 == RemoveAll(vehicles, arr)
                        v2 == RemoveAll(v1, tel)
                        v3 == Associate(v2, res, 1, chk, poi_pos, args.distance)
                        deleted == (arr \cup tel) \cap Keys(vehicles)
                        reported == { res[i].id : i \in 1 .. Len(res) }
                    IN  /\ pc' = IF RemovalAborts(vehicles, arr) \/ RemovalAborts(v1, tel)
                                 THEN "KeyError" ELSE pc
                        /\ check' = chk
                        /\ live' = stay \cup dep
                        /\ subscribed' = sub
                        /\ arrived' = arr
                        /\ teleport' = tel
                        /\ results' = res
                        /\ printed' =
                             RemovalMessages(vehicles, arr,
                                 "Error during the removal of the arrived vehicles")
                             \o RemovalMessages(v1, tel,
                                 "Error during the removal of the teleported vehicles")
                        /\ before' = vehicles
                        /\ after_removal' = v2
                        /\ vehicles' = v3
                        /\ out' = IF chk THEN write_positions(v3, step, out) ELSE out
                        /\ events' = events \o << << "simulationStep", step >> >>
                                      \o (IF chk THEN << << "write_positions", step >> >>
                                                 ELSE << >>)
                        /\ first_removed' =
                             [v \in Vehicles |->
                                IF v \in deleted /\ first_removed[v] = Never
                                THEN step ELSE first_removed[v]]
                        /\ gone_since' =
                             [v \in Vehicles |->
                                IF v \in reported THEN Never
                                ELSE IF v \in deleted THEN step
                                ELSE gone_since[v]]
    /\ step' = step + 1
    /\ UNCHANGED << args, poi_pos, sites_csv, boundary, analysis >>

\* Lines 202-203: the loop is over.
Finish ==
    /\ pc = "loop"
    /\ step > args.time
    /\ pc' = "done"
    /\ UNCHANGED << args, poi_pos, vehicles, step, check, out, sites_csv, live,
                    subscribed, arrived, teleport, results, printed, before,
                    after_removal, first_removed, gone_since, boundary, analysis, events >>

Next == Setup \/ StepZeroInterval \/ Step \/ Finish

Spec == Init /\ [][Next]_vars

\* ------------------------------------------------------- the loop on its own
\* Runs of every duration 0..MaxTime with every interval 1..MaxInterval, on a
\* simulation of one vehicle.
LoopConfigs ==
    { [input |-> Given(FileNear), sumo_net |-> TRUE, cell_sites |-> Absent,
       time |-> T, step |-> k, distance |-> 1, sumo_cfg |-> { VehicleOrder[1] }] :
      T \in 0 .. MaxTime, k \in 1 .. MaxInterval }

InitLoop ==
    /\ pc = "start"
    /\ args \in LoopConfigs
    /\ poi_pos = << >>
    /\ vehicles = << >>
    /\ step = 0
    /\ check = FALSE
    /\ out = << >>
    /\ sites_csv = << >>
    /\ live = {}
    /\ subscribed = {}
    /\ arrived = {}
    /\ teleport = {}
    /\ results = << >>
    /\ printed = << >>
    /\ before = << >>
    /\ after_removal = << >>
    /\ first_removed = [v \in Vehicles |-> Never]
    /\ gone_since = [v \in Vehicles |-> Never]
    /\ events = << >>
    /\ analysis = {}
    /\ boundary = WholeBoundary

NextLoop == Setup \/ Step \/ Finish

\* main() is sequential code: while a statement can run, one runs.
SpecLoop == InitLoop /\ [][NextLoop]_vars /\ WF_vars(NextLoop)

\* --------------------------------------------------- new_cell_site on its own
\* The registries of at most MaxSites sites, at any positions.
Registries == UNION { SyntheticSites(n) : n \in 0 .. MaxSites }

\* The values of max_dist: negative, zero, and up to past the longest distance.
ResolveDistances == -1 .. MaxCoord + 1

\* A call new_cell_site(poi_pos, veh_coord, max_dist) about to be made: the
\* registry in poi_pos, the position in results, max_dist in args.distance.
InitResolve ==
    /\ pc = "call"
    /\ \E d \in ResolveDistances :
         args = [input |-> Absent, sumo_net |-> FALSE, cell_sites |-> Absent,
                 time |-> 0, step |-> 1, distance |-> d, sumo_cfg |-> Vehicles]
    /\ poi_pos \in Registries
    /\ \E coord \in Positions : results = << [id |-> "a", pos |-> coord] >>
    /\ vehicles = << >>
    /\ step = 0
    /\ check = FALSE
    /\ out = << >>
    /\ sites_csv = << >>
    /\ live = {}
    /\ subscribed = {}
    /\ arrived = {}
    /\ teleport = {}
    /\ printed = << >>
    /\ before = << >>
    /\ after_removal = << >>
    /\ first_removed = [v \in Vehicles |-> Never]
    /\ gone_since = [v \in Vehicles |-> Never]
    /\ events = << >>
    /\ analysis = {}
    /\ boundary = WholeBoundary

\* The call returns: its value is stored as the site of the vehicle.
Resolve ==
    /\ pc = "call"
    /\ vehicles' = << [id |-> results[1].id,
                       site |-> new_cell_site(poi_pos, results[1].pos, args.distance)] >>
    /\ pc' = "returned"
    /\ UNCHANGED << args, poi_pos, step, check, out, sites_csv, live, subscribed,
                    arrived, teleport, results, printed, before, after_removal,
                    first_removed, gone_since, boundary, analysis, events >>

SpecResolve == InitResolve /\ [][Resolve]_vars

\* ------------------------------------------- the generated sites on their own
\* The net boundaries: bounds that are whole or not, negative or not.
HalfCoords == (0 - MaxHalf) .. MaxHalf
Boundaries ==
    { << << x1, y1 >>, << x2, y2 >> >> :
        x1 \in HalfCoords, y1 \in HalfCoords, x2 \in HalfCoords, y2 \in HalfCoords }
    \ { b \in (HalfCoords \X HalfCoords) \X (HalfCoords \X HalfCoords) :
          b[1][1] > b[2][1] \/ b[1][2] > b[2][2] }

\* main() about to run with --cell_sites n and no site file, in a
\* simulation whose net has any of the boundaries.
InitSites ==
    /\ pc = "start"
    /\ \E n \in -1 .. MaxSites :
         args = [input |-> Absent, sumo_net |-> FALSE, cell_sites |-> Given(n),
                 time |-> 0, step |-> 1, distance |-> 1, sumo_cfg |-> Vehicles]
    /\ boundary \in Boundaries
    /\ poi_pos = << >>
    /\ vehicles = << >>
    /\ step = 0
    /\ check = FALSE
    /\ out = << >>
    /\ sites_csv = << >>
    /\ live = {}
    /\ subscribed = {}
    /\ arrived = {}
    /\ teleport = {}
    /\ results = << >>
    /\ printed = << >>
    /\ before = << >>
    /\ after_removal = << >>
    /\ first_removed = [v \in Vehicles |-> Never]
    /\ gone_since = [v \in Vehicles |-> Never]
    /\ events = << >>
    /\ analysis = {}

SpecSites == InitSites /\ [][Setup]_vars

\* ------------------------------------------------------- sites_analysis.py
\* The dictionaries 'vehicles' that write_positions can be handed when the
\* sites are the generated sites "0" and "1".
SnapshotRecords ==
    UNION { { [i \in 1 .. Len(Ordered(V, 1)) |->
                 [id |-> Ordered(V, 1)[i], site |-> f[Ordered(V, 1)[i]]]] :
              f \in [V -> { None, "0", "1" }] } : V \in SUBSET Vehicles }

\* The association files of n snapshots, at the steps 0..n-1, as
\* sites_association.py writes them.
RECURSIVE FilesOf(_)
FilesOf(n) ==
    IF n = 0 THEN { write_header(<< >>) }
    ELSE { write_positions(vehs, n - 1, file) :
             vehs \in SnapshotRecords, file \in FilesOf(n - 1) }

AssociationFiles == UNION { FilesOf(n) : n \in 0 .. MaxSnapshots }

\* The rows pandas.read_csv returns: the lines after the header.
DataRows(file) == SubSeq(file, 2, Len(file))

\* number_users, lines 27-29: the site_id column is read as float, the empty
\* field is NaN, fillna(0) makes it 0.0 and astype(int) makes every id an int.
SiteIdAsInt(field) == IF field = "" THEN 0 ELSE ParseInt(field)

\* number_users, lines 27-32: the frame of (step, site_id) and value_counts()
\* of it, one line <<timestamp, site_id, number_vehicles>> per distinct pair.
\* sort_values orders the lines; lines with equal keys have no fixed order,
\* so the output is the set of its lines.
number_users(file) ==
    LET rows == DataRows(file)
        df_in == [i \in 1 .. Len(rows) |->
                    << ParseInt(rows[i][1]), SiteIdAsInt(rows[i][3]) >>]
        pairs == { df_in[i] : i \in 1 .. Len(df_in) }
    IN  { << p[1], p[2], Cardinality({ i \in 1 .. Len(df_in) : df_in[i] = p }) >> :
            p \in pairs }

\* A value of the site_id column in num_changes: a number read by read_csv,
\* or the string fillna('0') puts in place of NaN.  A number never equals a
\* string in Python, 0 and '0' included.
PyNum(text) == << "number", text >>
PyStr(text) == << "str", text >>

\* num_changes, lines 94-97: read_csv and fillna('0').
SiteIdFilled(field) == IF field = "" THEN PyStr("0") ELSE PyNum(field)

\* changes.get(veh_id, ('0', 0)), line 106.
ChangesGet(changes, veh_id) ==
    IF \E i \in 1 .. Len(changes) : changes[i].id = veh_id
    THEN LET i == CHOOSE i \in 1 .. Len(changes) : changes[i].id = veh_id
         IN  << changes[i].site, changes[i].count >>
    ELSE << PyStr("0"), 0 >>

\* changes[veh_id] = (site, count), line 108.
ChangesSet(changes, veh_id, site, count) ==
    IF \E i \in 1 .. Len(changes) : changes[i].id = veh_id
    THEN [i \in 1 .. Len(changes) |->
            IF changes[i].id = veh_id
            THEN [id |-> veh_id, site |-> site, count |-> count]
            ELSE changes[i]]
    ELSE Append(changes, [id |-> veh_id, site |-> site, count |-> count])

\* num_changes, lines 105-108: the loop over the rows from row i on.
RECURSIVE ChangesScan(_, _, _)
ChangesScan(rows, i, changes) ==
    IF i > Len(rows) THEN changes
    ELSE LET veh_id == rows[i][2]
             site == SiteIdFilled(rows[i][3])
             vehicle_counter == ChangesGet(changes, veh_id)
         IN  ChangesScan(rows, i + 1,
                 IF vehicle_counter[1] # site
                 THEN ChangesSet(changes, veh_id, site, vehicle_counter[2] + 1)
                 ELSE changes)

\* num_changes, lines 111-115: one line <<vehicle_id, count>> per key of
\* 'changes'; the order among equal counts is not fixed, so the output is the
\* set of its lines.
num_changes(file) ==
    LET changes == ChangesScan(DataRows(file), 1, << >>)
    IN  { << changes[i].id, changes[i].count >> : i \in 1 .. Len(changes) }

\* Line 114 when 'changes' is empty: the frame has no column 'count' and
\* sort_values raises KeyError.
NumChangesRaises(file) == ChangesScan(DataRows(file), 1, << >>) = << >>

\* sites_analysis.py about to run on an association file.
InitAnalysis ==
    /\ pc = "analysis"
    /\ out \in AssociationFiles
    /\ analysis = {}
    /\ args = [input |-> Absent, sumo_net |-> FALSE, cell_sites |-> Absent,
               time |-> 0, step |-> 1, distance |-> 1, sumo_cfg |-> Vehicles]
    /\ boundary = WholeBoundary
    /\ poi_pos = << >>
    /\ vehicles = << >>
    /\ step = 0
    /\ check = FALSE
    /\ sites_csv = << >>
    /\ live = {}
    /\ subscribed = {}
    /\ arrived = {}
    /\ teleport = {}
    /\ results = << >>
    /\ printed = << >>
    /\ before = << >>
    /\ after_removal = << >>
    /\ first_removed = [v \in Vehicles |-> Never]
    /\ gone_since = [v \in Vehicles |-> Never]
    /\ events = << >>

\* main() with --users (lines 211-212).
NumberUsers ==
    /\ pc = "analysis"
    /\ analysis' = number_users(out)
    /\ pc' = "users"
    /\ UNCHANGED << args, poi_pos, vehicles, step, check, out, sites_csv, live,
                    subscribed, arrived, teleport, results, printed, before,
                    after_removal, first_removed, gone_since, boundary, events >>

\* main() with --number_changes (lines 217-218).
NumChanges ==
    /\ pc = "analysis"
    /\ IF NumChangesRaises(out)
       THEN pc' = "KeyError" /\ UNCHANGED analysis
       ELSE pc' = "changes" /\ analysis' = num_changes(out)
    /\ UNCHANGED << args, poi_pos, vehicles, step, check, out, sites_csv, live,
                    subscribed, arrived, teleport, results, printed, before,
                    after_removal, first_removed, gone_since, boundary, events >>

NextAnalysis == NumberUsers \/ NumChanges

SpecAnalysis == InitAnalysis /\ [][NextAnalysis]_vars

\* ------------------------------------------------------- reading a state
\* An iteration of the loop has run: the variables of the last iteration
\* (check, arrived, teleport, results, printed, before, after_removal) are set.
Stepped == step > 0

\* The step number of the last iteration.
LastStep == step - 1

\* The ids reported as arrived or teleported in the last iteration.
Removed == arrived \cup teleport

\* The ids whose position was reported in the last iteration.
Reported == { results[i].id : i \in 1 .. Len(results) }

\* The position reported for v in the last iteration.
ReportedPos(v) == (CHOOSE i \in 1 .. Len(results) : results[i].id = v)

\* The vehicles that had a record when the last iteration began and were not
\* reported removed in it.
Kept == Keys(before) \ Removed

\* v is within max_distance of the site s (squared distances).
InRange(s, v) ==
    Dist2(SitePos(poi_pos, s), results[ReportedPos(v)].pos)
        <= args.distance * args.distance

\* The nearest site by exhaustive comparison: the first site of the registry
\* that no site is nearer than, if it is within max_dist; None otherwise.
BruteForceNearest(reg, coord, max_dist) ==
    LET nearest == { i \in 1 .. Len(reg) :
                       \A j \in 1 .. Len(reg) :
                          Dist2(reg[i].pos, coord) <= Dist2(reg[j].pos, coord) }
        first == CHOOSE i \in nearest : \A j \in nearest : i <= j
    IN  IF nearest = {} THEN None
        ELSE IF max_dist >= 0 /\ Dist2(reg[first].pos, coord) <= max_dist * max_dist
             THEN reg[first].id
             ELSE None

\* ------------------------------------------------------------------ claims
\* C1: on a step that is not a check step, every vehicle that had a record
\* when the step began and is not reported removed in it ends the step with
\* the site it had, whether that site was a site or None.
C1_NoChangeOffCheck ==
    (Stepped /\ ~ check) =>
        \A v \in Kept :
            HasKey(vehicles, v) /\ DictGet(vehicles, v) = DictGet(before, v)

\* C2: on every step, a vehicle whose position is reported and that has no
\* record when its position is read has a record when the step ends, and the
\* record's site is the resolver's result for the reported position.
C2_NewVehicleResolved ==
    Stepped =>
        \A v \in Reported \ Keys(after_removal) :
            /\ HasKey(vehicles, v)
            /\ DictGet(vehicles, v) =
                 BruteForceNearest(poi_pos, results[ReportedPos(v)].pos, args.distance)

\* C2 happens: on a step that is not a check step a vehicle without a record
\* reports a position and ends the step with a site.
C2_Witness ==
    /\ Stepped /\ ~ check
    /\ \E v \in Reported \ Keys(after_removal) : DictGet(vehicles, v) # None

\* C3: a vehicle whose record holds a site s and that is not reported removed
\* keeps s on every step that is not a check step, and on every check step
\* at which it is within max_distance of s, even if another site is nearer.
C3_KeepsSiteInRange ==
    Stepped =>
        \A v \in Kept :
            LET s == DictGet(before, v)
            IN  (s # None /\ (~ check \/ v \notin Reported \/ InRange(s, v)))
                    => DictGet(vehicles, v) = s

\* C3 happens: on a check step a vehicle keeps its site although another
\* site is strictly nearer to its position.
C3_Witness ==
    /\ Stepped /\ check
    /\ \E v \in Kept \cap Reported :
         LET s == DictGet(before, v)
         IN  /\ s # None
             /\ InRange(s, v)
             /\ DictGet(vehicles, v) = s
             /\ \E i \in 1 .. Len(poi_pos) :
                  Dist2(poi_pos[i].pos, results[ReportedPos(v)].pos)
                    < Dist2(SitePos(poi_pos, s), results[ReportedPos(v)].pos)

\* C4: on a check step, a vehicle whose record holds a site s, that is not
\* reported removed and whose distance to s exceeds max_distance ends the
\* step with the nearest site of the whole registry if that one is within
\* max_distance and with None otherwise; on a step that is not a check step
\* its site stays s.
C4_ReResolvedWhenOutOfRange ==
    Stepped =>
        \A v \in Kept \cap Reported :
            LET s == DictGet(before, v)
            IN  (s # None /\ ~ InRange(s, v)) =>
                    DictGet(vehicles, v) =
                        IF check
                        THEN BruteForceNearest(poi_pos, results[ReportedPos(v)].pos,
                                               args.distance)
                        ELSE s

\* C4 happens: at a check step that follows a step that is not one, a vehicle
\* out of range of its site loses it, no site of the registry being in range.
C4_Witness ==
    /\ Stepped /\ check
    /\ \E v \in Kept \cap Reported :
         LET s == DictGet(before, v)
         IN  /\ s # None
             /\ ~ InRange(s, v)
             /\ DictGet(vehicles, v) = None
             /\ Len(poi_pos) > 0
             /\ ~ IsCheck(LastStep - 1, args.step)

\* d exceeds max_dist (d a squared distance).
Exceeds(d, max_dist) == max_dist < 0 \/ d > max_dist * max_dist

\* C5: new_cell_site returns None exactly when the registry is empty or every
\* site is farther than max_dist; otherwise it returns the first site, in
\* registry order, among those at the smallest distance, and that distance
\* is at most max_dist.
C5_ResolverNearestFirst ==
    pc = "returned" =>
        LET r == vehicles[1].site
            coord == results[1].pos
            D(i) == Dist2(poi_pos[i].pos, coord)
            sites == 1 .. Len(poi_pos)
        IN  IF \A i \in sites : Exceeds(D(i), args.distance)
            THEN r = None
            ELSE \E i \in sites :
                    /\ r = poi_pos[i].id
                    /\ \A j \in sites : D(i) <= D(j)
                    /\ \A j \in sites : j < i => D(j) > D(i)
                    /\ ~ Exceeds(D(i), args.distance)

\* C5 happens: two sites are equally near, both at exactly max_dist, and
\* the first of the registry is returned.
C5_Witness ==
    /\ pc = "returned"
    /\ Len(poi_pos) = 2
    /\ Dist2(poi_pos[1].pos, results[1].pos) = args.distance * args.distance
    /\ Dist2(poi_pos[2].pos, results[1].pos) = args.distance * args.distance
    /\ args.distance > 0
    /\ vehicles[1].site = poi_pos[1].id

\* C6: a removal loop never ends main(): the id of a vehicle without a
\* record (never added, removed earlier, or listed as arrived and as
\* teleported in one step) only prints a message; after the two loops no
\* reported id has a record and every other id has the record, and the
\* site, it had before them.
C6_RemovalIdempotent ==
    Stepped =>
        /\ pc \in {"loop", "done"}
        /\ \A v \in Removed : ~ HasKey(after_removal, v)
        /\ \A v \in Vehicles \ Removed :
              /\ HasKey(after_removal, v) <=> HasKey(before, v)
              /\ DictGet(after_removal, v) = DictGet(before, v)
        /\ Len(printed) =
              Cardinality(arrived \ Keys(before))
              + Cardinality(teleport \ (Keys(before) \ arrived))

\* C6 happens: one id is listed as arrived and as teleported, a removal
\* fails, another vehicle keeps its record, and the loop has steps left.
C6_Witness ==
    /\ Stepped
    /\ pc = "loop"
    /\ step <= args.time
    /\ arrived \cap teleport # {}
    /\ printed # << >>
    /\ \E v \in Keys(before) \ Removed : HasKey(vehicles, v)

\* The rows of the output file for the vehicle v are all of steps before s.
RowsBefore(v, s) ==
    \A i \in 1 .. Len(out) : out[i][2] = v => ParseInt(out[i][1]) < s

\* C7 as claimed: once the record of a vehicle has been deleted at a step S,
\* no row of the output file of step S or later is for that vehicle.
C7_NoRowAfterRemoval ==
    \A v \in Vehicles :
        first_removed[v] # Never => RowsBefore(v, first_removed[v])

\* C7 as amended: a vehicle whose record was deleted at a step S and that has
\* reported no position since has no record, and no row of the output file
\* of step S or later is for it.
C7_NoRowWhileGone ==
    \A v \in Vehicles :
        gone_since[v] # Never =>
            ~ HasKey(vehicles, v) /\ RowsBefore(v, gone_since[v])

\* C7 happens: the record of a vehicle that had a row in an earlier snapshot
\* is deleted at a check step, and the snapshot of that step holds a row of
\* another vehicle only.
C7_Witness ==
    \E v \in Vehicles :
        /\ gone_since[v] # Never
        /\ \E i \in 1 .. Len(out) : out[i][2] = v
        /\ \E i \in 1 .. Len(out) :
              /\ out[i] # Header
              /\ out[i][2] # v
              /\ ParseInt(out[i][1]) >= gone_since[v]

\* C8: the vehicles that have a record are the vehicles in the simulation,
\* each with one record.
C8_RecordsAreLive ==
    /\ Keys(vehicles) = live
    /\ Len(vehicles) = Cardinality(Keys(vehicles))

\* C8 happens: in one step a vehicle leaves the simulation and loses its
\* record while another enters it and gets one.
C8_Witness ==
    /\ Stepped
    /\ \E v \in Keys(before) : v \notin live /\ ~ HasKey(vehicles, v)
    /\ \E v \in live : ~ HasKey(before, v) /\ HasKey(vehicles, v)

\* C9: the output file only grows by appending; an iteration of a check
\* step appends one line per record of the dict as it is when the step ends,
\* with the step number and the record's site, and nothing else appends.
C9_SnapshotAppended ==
    [][ pc # "start" =>
          /\ Len(out') >= Len(out)
          /\ SubSeq(out', 1, Len(out)) = out
          /\ IF step' = step + 1 /\ check'
             THEN LET app == SubSeq(out', Len(out) + 1, Len(out'))
                  IN  /\ Len(app) = Len(vehicles')
                      /\ \A v \in Keys(vehicles') :
                           \E i \in 1 .. Len(app) :
                              /\ app[i] = << Str(step), v,
                                             CsvField(DictGet(vehicles', v)) >>
                              /\ \A j \in 1 .. Len(app) : app[j][2] = v => j = i
             ELSE out' = out ]_vars

\* C9 happens: the file holds the rows of an earlier snapshot and, after
\* them, the rows of the last step for two vehicles, one without a site.
C9_Witness ==
    /\ Stepped /\ check
    /\ Len(vehicles) = 2
    /\ \E i \in 1 .. Len(vehicles) : vehicles[i].site = None
    /\ \E i \in 2 .. Len(out) : ParseInt(out[i][1]) < LastStep
    /\ out[Len(out)][1] = Str(LastStep)

\* C10: once main() has written the header, the output file starts with the
\* header line and holds it nowhere else; no iteration runs before that.
C10_HeaderOnceFirst ==
    IF pc = "start" THEN step = 0 /\ out \in { << >>, StaleFile }
    ELSE /\ Len(out) >= 1
         /\ out[1] = Header
         /\ \A i \in 2 .. Len(out) : out[i] # Header

\* C10 happens: the run is over and the file holds the header followed by
\* the rows of two snapshots.
C10_Witness ==
    /\ pc = "done"
    /\ out[1] = Header
    /\ \E i, j \in 2 .. Len(out) : out[i][1] # out[j][1]

\* C11: a run whose check interval is zero or negative is rejected at
\* startup: it never fails inside the loop, it advances the simulation by no
\* step and it never runs the loop to its end.
C11_NonPositiveIntervalRejected ==
    args.step <= 0 =>
        /\ pc # "ZeroDivisionError"
        /\ step = 0
        /\ pc # "done"

\* C12: when main() fails because no site source was given, or a site file
\* was given without the network file, no step has been advanced and nothing
\* of the run's output has been produced: the output file is as it was
\* before the run, without the header of this run, and no site file exists.
C12_NothingProducedOnConfigError ==
    pc = "TypeError" =>
        /\ step = 0
        /\ out \in { << >>, StaleFile }
        /\ sites_csv = << >>

\* C13 as stated: a command line that gives both a site file and a site
\* count is rejected before the loop.
C13_BothSourcesRejected ==
    (args.input # Absent /\ args.cell_sites # Absent) =>
        pc \in { "start", "TypeError" }

\* C13: a command line that gives both a site file (with the network file)
\* and a site count is accepted: the registry is the one of the file, the
\* count is ignored and no site-position file is written.
C13_FileWinsOverCount ==
    (args.input # Absent /\ args.cell_sites # Absent /\ args.sumo_net /\ pc # "start") =>
        /\ pc # "TypeError"
        /\ poi_pos = args.input[1]
        /\ sites_csv = << >>

\* Both sources were given, the count is not zero, and the run ended with a
\* vehicle associated to a site of the file.
C13_Witness ==
    /\ args.input # Absent
    /\ Truthy(args.cell_sites)
    /\ pc = "done"
    /\ \E i \in 1 .. Len(vehicles) : vehicles[i].site = "7"

\* The number given with --cell_sites (0 if it was not given).
Count == IF args.cell_sites = Absent THEN 0 ELSE args.cell_sites[1]

\* The position pos is inside the net boundary b (pos in units, b in halves).
InsideBoundary(pos, b) ==
    /\ b[1][1] <= 2 * pos[1] /\ 2 * pos[1] <= b[2][1]
    /\ b[1][2] <= 2 * pos[2] /\ 2 * pos[2] <= b[2][2]

\* C14: after the sites were generated for --cell_sites N, N >= 1, the
\* site-position file holds the header and exactly N rows, one per site of the
\* registry, their ids are distinct, and every site lies inside the net
\* boundary the simulation reported, whole or not, negative or not.
C14_SitesInsideBoundary ==
    (SiteSource(args) = "cell_sites" /\ Count >= 1 /\ pc = "loop") =>
        /\ Len(sites_csv) = Count + 1
        /\ Len(poi_pos) = Count
        /\ \A i \in 1 .. Len(poi_pos) :
             /\ sites_csv[i + 1] = << poi_pos[i].id, Str(poi_pos[i].pos[1]),
                                      Str(poi_pos[i].pos[2]) >>
             /\ \A j \in 1 .. Len(poi_pos) : poi_pos[i].id = poi_pos[j].id => i = j
             /\ InsideBoundary(poi_pos[i].pos, boundary)

\* The number of rows of the association file at step s whose site_id field
\* is field (the empty field: no site).
RowsWith(file, s, field) ==
    Cardinality({ i \in 2 .. Len(file) : file[i][1] = Str(s) /\ file[i][3] = field })

\* The number of vehicles number_users reports for step s under site id k
\* (0 if it has no line for them).
CountUnder(s, k) ==
    IF \E l \in analysis : l[1] = s /\ l[2] = k
    THEN (CHOOSE l \in analysis : l[1] = s /\ l[2] = k)[3]
    ELSE 0

\* C15: in the output of number_users, for every step, the count under the
\* special site id 0 is the number of rows of that step without a site, and
\* the count under a site id is the number of rows of that step with that
\* site, for the generated site ids "0" and "1".
C15_UsersPerSite ==
    pc = "users" =>
        \A s \in 0 .. MaxSnapshots :
            /\ CountUnder(s, 0) = RowsWith(out, s, "")
            /\ \A site \in { "0", "1" } :
                 CountUnder(s, ParseInt(site)) = RowsWith(out, s, site)

\* The rows of vehicle v in the association file, in file order.
VehicleRows(file, v) == SelectSeq(DataRows(file), LAMBDA row : row[2] = v)

\* The number of times the site_id field of v changes between two
\* consecutive rows of v.
ChangesOf(file, v) ==
    LET rows == VehicleRows(file, v)
    IN  Cardinality({ i \in 1 .. Len(rows) - 1 : rows[i][3] # rows[i + 1][3] })

\* C20: num_changes ends with a line for every vehicle of the association
\* file, and the count of the line is the number of times the vehicle's
\* association changed between consecutive rows (0 if it never changed).
C20_ChangesCounted ==
    pc \in { "changes", "KeyError" } =>
        \A v \in Vehicles :
            VehicleRows(out, v) # << >> =>
                /\ pc = "changes"
                /\ << v, ChangesOf(out, v) >> \in analysis

\* The squared distance between the site s and the position v reported.
SiteDist2(s, v) == Dist2(SitePos(poi_pos, s), results[ReportedPos(v)].pos)

\* C16: the removals of a step come before its associations: a vehicle that
\* had a record when the step began, is reported arrived or teleported in it
\* and reports a position in it ends the step with a new record, whose site is
\* the nearest site within max_distance of that position (None if there is
\* none), on a check step or not, whatever site the deleted record held.
C16_RemovalBeforeResolution ==
    Stepped =>
        \A v \in (Keys(before) \cap Removed) \cap Reported :
            /\ ~ HasKey(after_removal, v)
            /\ DictGet(vehicles, v) =
                   BruteForceNearest(poi_pos, results[ReportedPos(v)].pos,
                                     args.distance)

\* C16 happens: on a step that is not a check step a vehicle is removed and
\* reports a position within range of the site its deleted record held, and
\* its new record holds another site.
C16_Witness ==
    /\ Stepped /\ ~ check
    /\ \E v \in (Keys(before) \cap Removed) \cap Reported :
         LET s == DictGet(before, v)
         IN  /\ s # None
             /\ InRange(s, v)
             /\ DictGet(vehicles, v) # None
             /\ DictGet(vehicles, v) # s

\* C17: when a record that held a site s at the beginning of a step, and was
\* not removed in it, holds another value at its end, the step is a check
\* step and the new value is None or a site within max_distance of the
\* position reported and strictly nearer to it than s.
C17_ReplacedOnlyByCloser ==
    Stepped =>
        \A v \in Kept :
            LET s == DictGet(before, v)
                new == DictGet(vehicles, v)
            IN  (s # None /\ new # s) =>
                    /\ check
                    /\ v \in Reported
                    /\ \/ new = None
                       \/ /\ InRange(new, v)
                          /\ SiteDist2(new, v) < SiteDist2(s, v)

\* C17 happens: a record changes from a site to another site.
C17_Witness ==
    /\ Stepped
    /\ \E v \in Kept :
         LET s == DictGet(before, v)
             new == DictGet(vehicles, v)
         IN  s # None /\ new # None /\ new # s

\* C18: on a check step, a vehicle whose record held no site at the beginning
\* of the step, that was not removed and reports a position, ends the step
\* with the nearest site of the whole registry if that site is within
\* max_distance of the position, and without a site otherwise.
C18_UnassociatedReResolved ==
    (Stepped /\ check) =>
        \A v \in Kept \cap Reported :
            DictGet(before, v) = None =>
                DictGet(vehicles, v) =
                    BruteForceNearest(poi_pos, results[ReportedPos(v)].pos,
                                      args.distance)

\* C18 happens: on a check step a record without a site gets one, and
\* another record without a site stays so although the registry has a site.
C18_Witness ==
    /\ Stepped /\ check
    /\ \E v \in Kept \cap Reported :
         DictGet(before, v) = None /\ DictGet(vehicles, v) # None
    /\ \E w \in Kept \cap Reported :
         /\ DictGet(before, w) = None /\ DictGet(vehicles, w) = None
         /\ Len(poi_pos) > 0

\* The step numbers of the calls of f recorded in events, in order.
CallsOf(f) ==
    LET calls == SelectSeq(events, LAMBDA e : e[1] = f)
    IN  [i \in 1 .. Len(calls) |-> calls[i][2]]

\* The loop is over for a run with duration T = args.time >= 0 and interval
\* k = args.step > 0: simulationStep() ran once for each step 0..T, in that
\* order; write_positions() ran exactly for the steps s of 0..T with
\* s mod k = 0, once each, T div k + 1 times in all, step 0 among them, each
\* call right after the simulationStep() of the same step; and no row of the
\* output file carries another step.
LoopRanAsConfigured ==
    LET T == args.time
        k == args.step
        snapshots == CallsOf("write_positions")
    IN  /\ CallsOf("simulationStep") = [i \in 1 .. T + 1 |-> i - 1]
        /\ Len(snapshots) = (T \div k) + 1
        /\ snapshots[1] = 0
        /\ { snapshots[i] : i \in 1 .. Len(snapshots) } = { s \in 0 .. T : s % k = 0 }
        /\ \A i \in 2 .. Len(events) :
             events[i][1] = "write_positions" =>
                 events[i - 1] = << "simulationStep", events[i][2] >>
        /\ \A i \in 2 .. Len(out) : ParseInt(out[i][1]) % k = 0

\* C19: a run with duration T >= 0 and positive interval k that enters the
\* loop ends it, and when it has ended it the simulation was advanced exactly
\* once for each step 0..T and a snapshot was written exactly at the steps
\* that are multiples of k, after the advance of the same step.
C19_LoopTerminatesAsConfigured ==
    /\ [](( pc = "done" /\ args.step > 0 /\ args.time >= 0) => LoopRanAsConfigured)
    /\ ((pc = "loop" /\ args.step > 0 /\ args.time >= 0) ~> (pc = "done"))

\* C19 happens: a run with interval 2 and duration 2 is over, with the
\* snapshots of the steps 0 and 2 but none of step 1, rows in both.
C19_Witness ==
    /\ pc = "done"
    /\ args.step = 2
    /\ args.time = 2
    /\ LoopRanAsConfigured
    /\ \E i \in 2 .. Len(out) : out[i][1] = "0"
    /\ \E i \in 2 .. Len(out) : out[i][1] = "2"
    /\ Len(vehicles) > 0

\* The lines of the output file written by the last iteration: the rows that
\* carry its step number.
LastSnapshot == { i \in 2 .. Len(out) : out[i][1] = Str(LastStep) }

\* C21: in the snapshot a check step writes, every row with a site belongs to
\* a vehicle whose position was reported in that step, and the site is at most
\* max_distance away from that position.
C21_SnapshotSitesInRange ==
    (Stepped /\ check) =>
        \A i \in LastSnapshot :
            out[i][3] # "" =>
                /\ out[i][2] \in Reported
                /\ InRange(out[i][3], out[i][2])

\* C21 happens: a check step after the first writes the row of a vehicle
\* that kept the site it had, at exactly max_distance from its position, and
\* the row of a vehicle without a site.
C21_Witness ==
    /\ Stepped /\ check /\ LastStep > 0
    /\ \E i \in LastSnapshot :
         /\ out[i][3] # ""
         /\ out[i][2] \in Kept
         /\ DictGet(before, out[i][2]) = out[i][3]
         /\ SiteDist2(out[i][3], out[i][2]) = args.distance * args.distance
    /\ \E i \in LastSnapshot : out[i][3] = ""

\* The ids of the sites of the registry reg.
SiteIds(reg) == { reg[i].id : i \in 1 .. Len(reg) }

\* C22: once main() is past the setup no step changes the registry (no site
\* is added, removed or moved), and every site held by a vehicle record is a
\* key of the registry, so poi_pos[poi_id] of line 196 is always defined.
C22_RegistryFixedAndCoversRecords ==
    /\ [](\A i \in 1 .. Len(vehicles) :
             vehicles[i].site # None => vehicles[i].site \in SiteIds(poi_pos))
    /\ [][pc # "start" => poi_pos' = poi_pos]_vars

\* C22 happens: the last step of a run was a check step on which line 196
\* looked up the site of a record in a registry of two sites, the same
\* registry the file gave at setup, and the record kept that site.
C22_Witness ==
    /\ pc = "done" /\ check /\ LastStep > 0
    /\ Len(poi_pos) = 2
    /\ args.input # Absent /\ poi_pos = args.input[1]
    /\ \E v \in Kept \cap Reported :
         /\ DictGet(before, v) # None
         /\ DictGet(vehicles, v) = DictGet(before, v)

====
